---- MODULE Spec2Model ----
(***************************************************************************)
(* Model of untruncate_json (src/json_untruncate.py): a one-pass scanner   *)
(* over a context stack with a single pending respawn checkpoint, followed *)
(* by the synthesis of the closing text.  A text is a sequence of          *)
(* one-character strings; indices in the model are 0-based like the        *)
(* Python code, so json[i] of the code is json[i + 1] here.                *)
(***************************************************************************)
EXTENDS Integers, Sequences, FiniteSets, TLC

\* ------------------------------------------------------------------------
\* Bounds of the model
\* ------------------------------------------------------------------------
MaxLen == 3      \* every text over Alphabet up to this length is an input
MaxDepth == 2    \* nesting depth of the generated JSON documents
MaxCalls == 2    \* untruncate_json is applied this many times in a row

\* ------------------------------------------------------------------------
\* ContextType and RespawnReason
\* ------------------------------------------------------------------------
TOP_LEVEL == "topLevel"
STRING_CTX == "string"
STRING_ESCAPED == "stringEscaped"
STRING_UNICODE == "stringUnicode"
NUMBER == "number"
NUMBER_NEEDS_DIGIT == "numberNeedsDigit"
NUMBER_NEEDS_EXPONENT == "numberNeedsExponent"
TRUE_CTX == "true"
FALSE_CTX == "false"
NULL_CTX == "null"
ARRAY_NEEDS_VALUE == "arrayNeedsValue"
ARRAY_NEEDS_COMMA == "arrayNeedsComma"
OBJECT_NEEDS_KEY == "objectNeedsKey"
OBJECT_NEEDS_COLON == "objectNeedsColon"
OBJECT_NEEDS_VALUE == "objectNeedsValue"
OBJECT_NEEDS_COMMA == "objectNeedsComma"

ContextType ==
    { TOP_LEVEL, STRING_CTX, STRING_ESCAPED, STRING_UNICODE, NUMBER,
      NUMBER_NEEDS_DIGIT, NUMBER_NEEDS_EXPONENT, TRUE_CTX, FALSE_CTX,
      NULL_CTX, ARRAY_NEEDS_VALUE, ARRAY_NEEDS_COMMA, OBJECT_NEEDS_KEY,
      OBJECT_NEEDS_COLON, OBJECT_NEEDS_VALUE, OBJECT_NEEDS_COMMA }

STRING_ESCAPE == "stringEscape"
COLLECTION_ITEM == "collectionItem"

RespawnReason == { STRING_ESCAPE, COLLECTION_ITEM }

\* Optional[T]: None is the empty sequence, a value v is <<v>>
None == << >>
Some(v) == << v >>

\* ------------------------------------------------------------------------
\* Characters
\* ------------------------------------------------------------------------
Digits == { "0", "1", "2", "3", "4", "5", "6", "7", "8", "9" }

LowerLetters ==
    { "a", "b", "c", "d", "e", "f", "g", "h", "i", "j", "k", "l", "m",
      "n", "o", "p", "q", "r", "s", "t", "u", "v", "w", "x", "y", "z" }

is_whitespace(char) == char \in { " ", "\r", "\n", "\t" }

\* ------------------------------------------------------------------------
\* State of one call
\* ------------------------------------------------------------------------
VARIABLES
    json,                  \* the argument of the current call
    context_stack,         \* bottom first
    position,              \* the loop variable of the scan loop
    next_index,            \* the next value range(len(json)) yields
    respawn_position,
    respawn_stack_length,
    respawn_reason,
    result,                \* list of text fragments joined at return
    closing_index,         \* 1-based index of the next context to close
    output,                \* the returned text
    pc,                    \* "scan", "close", "join", "done"
    calls                  \* number of the current call

vars ==
    << json, context_stack, position, next_index, respawn_position,
       respawn_stack_length, respawn_reason, result, closing_index,
       output, pc, calls >>

respawn_vars == << respawn_position, respawn_stack_length, respawn_reason >>

synth_vars == << result, closing_index, output >>

call_vars == << json, calls >>

\* ------------------------------------------------------------------------
\* Python helpers
\* ------------------------------------------------------------------------
\* s.rfind(c, lo, hi): highest 0-based i with lo <= i < hi and s[i] = c, else -1
RFind(s, c, lo, hi) ==
    LET found == { i \in lo .. (hi - 1) : i < Len(s) /\ s[i + 1] = c }
    IN  IF found = {} THEN -1
        ELSE CHOOSE i \in found : \A j \in found : j <= i

\* s[start:] with Python's treatment of a negative start
SliceFrom(s, start) ==
    LET from == IF start < 0
                THEN (IF Len(s) + start < 0 THEN 0 ELSE Len(s) + start)
                ELSE start
    IN  SubSeq(s, from + 1, Len(s))

\* s[:stop] for stop >= 0
SliceTo(s, stop) == SubSeq(s, 1, IF stop > Len(s) THEN Len(s) ELSE stop)

\* ------------------------------------------------------------------------
\* The closures of untruncate_json, as functions of the state they touch
\* ------------------------------------------------------------------------
\* push that overwrites the top context, as replace does
push_AsReplace(stack, context) == [stack EXCEPT ![Len(stack)] = context]

push(stack, context) == Append(stack, context)

replace(stack, context) == [stack EXCEPT ![Len(stack)] = context]

pop(stack) == SubSeq(stack, 1, Len(stack) - 1)

\* set_respawn without the test for a pending checkpoint: the last writer wins
set_respawn_Overwrites(reason, stack, pos) ==
    << Some(pos), Some(Len(stack)), Some(reason) >>

\* the three respawn fields after set_respawn(reason), called while the
\* stack is `stack`
set_respawn(reason, stack, pos) ==
    IF respawn_position = None
    THEN << Some(pos), Some(Len(stack)), Some(reason) >>
    ELSE << respawn_position, respawn_stack_length, respawn_reason >>

\* the three respawn fields after clear_respawn(reason)
clear_respawn(reason) ==
    IF Some(reason) = respawn_reason
    THEN << None, None, None >>
    ELSE << respawn_position, respawn_stack_length, respawn_reason >>

\* position after dont_consume_character()
dont_consume_character(pos) == pos - 1

\* start_any whose digit test is char <= "9" only: every character that
\* sorts before the digits starts a number
start_any_LooseDigit(stack, char) ==
    IF char \in Digits \cup { " ", "\"", "+", ",", "-", ".", "/" }
    THEN push(stack, NUMBER)
    ELSE IF char = "t" THEN push(stack, TRUE_CTX)
    ELSE IF char = "f" THEN push(stack, FALSE_CTX)
    ELSE IF char = "n" THEN push(stack, NULL_CTX)
    ELSE IF char = "[" THEN push(stack, ARRAY_NEEDS_VALUE)
    ELSE IF char = "{" THEN push(stack, OBJECT_NEEDS_KEY)
    ELSE stack

\* start_any with a branch that pops on a closing bracket
start_any_PopsOnCloser(stack, char) ==
    IF char \in Digits THEN push(stack, NUMBER)
    ELSE IF char = "\"" THEN push(stack, STRING_CTX)
    ELSE IF char = "-" THEN push(stack, NUMBER_NEEDS_DIGIT)
    ELSE IF char = "t" THEN push(stack, TRUE_CTX)
    ELSE IF char = "f" THEN push(stack, FALSE_CTX)
    ELSE IF char = "n" THEN push(stack, NULL_CTX)
    ELSE IF char = "[" THEN push(stack, ARRAY_NEEDS_VALUE)
    ELSE IF char = "{" THEN push(stack, OBJECT_NEEDS_KEY)
    ELSE IF char \in { "]", "}" } THEN pop(stack)
    ELSE stack

\* the stack after start_any(char)
start_any(stack, char) ==
    IF char \in Digits THEN push(stack, NUMBER)
    ELSE IF char = "\"" THEN push(stack, STRING_CTX)
    ELSE IF char = "-" THEN push(stack, NUMBER_NEEDS_DIGIT)
    ELSE IF char = "t" THEN push(stack, TRUE_CTX)
    ELSE IF char = "f" THEN push(stack, FALSE_CTX)
    ELSE IF char = "n" THEN push(stack, NULL_CTX)
    ELSE IF char = "[" THEN push(stack, ARRAY_NEEDS_VALUE)
    ELSE IF char = "{" THEN push(stack, OBJECT_NEEDS_KEY)
    ELSE stack

SetRespawnVars(r) ==
    /\ respawn_position' = r[1]
    /\ respawn_stack_length' = r[2]
    /\ respawn_reason' = r[3]

\* ------------------------------------------------------------------------
\* The scan loop: one action per branch of the dispatch on current_context
\* ------------------------------------------------------------------------
\* `for position in range(len(json))` yields another value
InLoop == pc = "scan" /\ next_index < Len(json)

\* char = json[position] of the iteration that starts now
Char == json[next_index + 1]

\* context_stack[-1]; on an empty list it raises IndexError and no branch of
\* the dispatch runs
current_context ==
    IF context_stack = << >> THEN "IndexError"
    ELSE context_stack[Len(context_stack)]

\* what every iteration does to the loop: position is bound to the value
\* the range yields, whatever the body did to position before
Iterate(pos) ==
    /\ position' = pos
    /\ next_index' = next_index + 1
    /\ UNCHANGED << synth_vars, call_vars, pc >>

StepTopLevel ==
    /\ InLoop
    /\ current_context = TOP_LEVEL
    /\ context_stack' = start_any(context_stack, Char)
    /\ UNCHANGED respawn_vars
    /\ Iterate(next_index)

StepString ==
    /\ InLoop
    /\ current_context = STRING_CTX
    /\ IF Char = "\""
       THEN /\ context_stack' = pop(context_stack)
            /\ UNCHANGED respawn_vars
       ELSE IF Char = "\\"
       THEN /\ SetRespawnVars(set_respawn(STRING_ESCAPE, context_stack, next_index))
            /\ context_stack' = push(context_stack, STRING_ESCAPED)
       ELSE UNCHANGED << context_stack, respawn_vars >>
    /\ Iterate(next_index)

\* StepStringEscaped that leaves the escape without clearing its checkpoint
StepStringEscaped_NoClear ==
    /\ InLoop
    /\ current_context = STRING_ESCAPED
    /\ IF Char = "u"
       THEN /\ context_stack' = push(context_stack, STRING_UNICODE)
            /\ UNCHANGED respawn_vars
       ELSE /\ UNCHANGED respawn_vars
            /\ context_stack' = pop(context_stack)
    /\ Iterate(next_index)

StepStringEscaped ==
    /\ InLoop
    /\ current_context = STRING_ESCAPED
    /\ IF Char = "u"
       THEN /\ context_stack' = push(context_stack, STRING_UNICODE)
            /\ UNCHANGED respawn_vars
       ELSE /\ SetRespawnVars(clear_respawn(STRING_ESCAPE))
            /\ context_stack' = pop(context_stack)
    /\ Iterate(next_index)

\* StepStringUnicode that counts one character too many
StepStringUnicode_OffByOne ==
    /\ InLoop
    /\ current_context = STRING_UNICODE
    /\ IF next_index - RFind(json, "u", 0, next_index) = 5
       THEN /\ SetRespawnVars(clear_respawn(STRING_ESCAPE))
            /\ context_stack' = pop(context_stack)
       ELSE UNCHANGED << context_stack, respawn_vars >>
    /\ Iterate(next_index)

StepStringUnicode ==
    /\ InLoop
    /\ current_context = STRING_UNICODE
    /\ IF next_index - RFind(json, "u", 0, next_index) = 4
       THEN /\ SetRespawnVars(clear_respawn(STRING_ESCAPE))
            /\ context_stack' = pop(context_stack)
       ELSE UNCHANGED << context_stack, respawn_vars >>
    /\ Iterate(next_index)

StepNumber ==
    /\ InLoop
    /\ current_context = NUMBER
    /\ UNCHANGED respawn_vars
    /\ IF Char = "."
       THEN /\ context_stack' = replace(context_stack, NUMBER_NEEDS_DIGIT)
            /\ Iterate(next_index)
       ELSE IF Char \in { "e", "E" }
       THEN /\ context_stack' = replace(context_stack, NUMBER_NEEDS_EXPONENT)
            /\ Iterate(next_index)
       ELSE IF Char \notin Digits
       THEN /\ context_stack' = pop(context_stack)
            /\ Iterate(dont_consume_character(next_index))
       ELSE /\ UNCHANGED context_stack
            /\ Iterate(next_index)

StepNumberNeedsDigit ==
    /\ InLoop
    /\ current_context = NUMBER_NEEDS_DIGIT
    /\ context_stack' = replace(context_stack, NUMBER)
    /\ UNCHANGED respawn_vars
    /\ Iterate(next_index)

StepNumberNeedsExponent ==
    /\ InLoop
    /\ current_context = NUMBER_NEEDS_EXPONENT
    /\ IF Char \in { "+", "-" }
       THEN context_stack' = replace(context_stack, NUMBER_NEEDS_DIGIT)
       ELSE context_stack' = replace(context_stack, NUMBER)
    /\ UNCHANGED respawn_vars
    /\ Iterate(next_index)

StepLiteral ==
    /\ InLoop
    /\ current_context \in { TRUE_CTX, FALSE_CTX, NULL_CTX }
    /\ UNCHANGED respawn_vars
    /\ IF Char \notin LowerLetters
       THEN /\ context_stack' = pop(context_stack)
            /\ Iterate(dont_consume_character(next_index))
       ELSE /\ UNCHANGED context_stack
            /\ Iterate(next_index)

StepArrayNeedsValue ==
    /\ InLoop
    /\ current_context = ARRAY_NEEDS_VALUE
    /\ IF Char = "]"
       THEN /\ context_stack' = pop(context_stack)
            /\ UNCHANGED respawn_vars
       ELSE IF ~ is_whitespace(Char)
       THEN /\ SetRespawnVars(clear_respawn(COLLECTION_ITEM))
            /\ context_stack' =
                   start_any(replace(context_stack, ARRAY_NEEDS_COMMA), Char)
       ELSE UNCHANGED << context_stack, respawn_vars >>
    /\ Iterate(next_index)

StepArrayNeedsComma ==
    /\ InLoop
    /\ current_context = ARRAY_NEEDS_COMMA
    /\ IF Char = "]"
       THEN /\ context_stack' = pop(context_stack)
            /\ UNCHANGED respawn_vars
       ELSE IF Char = ","
       THEN /\ SetRespawnVars(set_respawn(COLLECTION_ITEM, context_stack, next_index))
            /\ context_stack' = replace(context_stack, ARRAY_NEEDS_VALUE)
       ELSE UNCHANGED << context_stack, respawn_vars >>
    /\ Iterate(next_index)

StepObjectNeedsKey ==
    /\ InLoop
    /\ current_context = OBJECT_NEEDS_KEY
    /\ IF Char = "}"
       THEN /\ context_stack' = pop(context_stack)
            /\ UNCHANGED respawn_vars
       ELSE IF Char = "\""
       THEN /\ SetRespawnVars(set_respawn(COLLECTION_ITEM, context_stack, next_index))
            /\ context_stack' =
                   push(replace(context_stack, OBJECT_NEEDS_COLON), STRING_CTX)
       ELSE UNCHANGED << context_stack, respawn_vars >>
    /\ Iterate(next_index)

StepObjectNeedsColon ==
    /\ InLoop
    /\ current_context = OBJECT_NEEDS_COLON
    /\ IF Char = ":"
       THEN context_stack' = replace(context_stack, OBJECT_NEEDS_VALUE)
       ELSE UNCHANGED context_stack
    /\ UNCHANGED respawn_vars
    /\ Iterate(next_index)

StepObjectNeedsValue ==
    /\ InLoop
    /\ current_context = OBJECT_NEEDS_VALUE
    /\ IF ~ is_whitespace(Char)
       THEN /\ SetRespawnVars(clear_respawn(COLLECTION_ITEM))
            /\ context_stack' =
                   start_any(replace(context_stack, OBJECT_NEEDS_COMMA), Char)
       ELSE UNCHANGED << context_stack, respawn_vars >>
    /\ Iterate(next_index)

StepObjectNeedsComma ==
    /\ InLoop
    /\ current_context = OBJECT_NEEDS_COMMA
    /\ IF Char = "}"
       THEN /\ context_stack' = pop(context_stack)
            /\ UNCHANGED respawn_vars
       ELSE IF Char = ","
       THEN /\ SetRespawnVars(set_respawn(COLLECTION_ITEM, context_stack, next_index))
            /\ context_stack' = replace(context_stack, OBJECT_NEEDS_KEY)
       ELSE UNCHANGED << context_stack, respawn_vars >>
    /\ Iterate(next_index)

\* ------------------------------------------------------------------------
\* Synthesis of the closing text
\* ------------------------------------------------------------------------
TrueWord == << "t", "r", "u", "e" >>
FalseWord == << "f", "a", "l", "s", "e" >>
NullWord == << "n", "u", "l", "l" >>

\* what finish_word(word) appends to result
finish_word(word) ==
    SliceFrom(word, Len(word) - RFind(json, word[1], 0, Len(json)))

\* the contexts for which the closing loop has a branch
HasClosingText(context) ==
    context \notin { TOP_LEVEL, NUMBER, STRING_ESCAPED, STRING_UNICODE }

\* ClosingText without the "0" for a number that lacks a digit
ClosingText_NoZero(context) ==
    IF context = STRING_CTX THEN << "\"" >>
    ELSE IF context \in { NUMBER_NEEDS_DIGIT, NUMBER_NEEDS_EXPONENT } THEN << >>
    ELSE IF context = TRUE_CTX THEN finish_word(TrueWord)
    ELSE IF context = FALSE_CTX THEN finish_word(FalseWord)
    ELSE IF context = NULL_CTX THEN finish_word(NullWord)
    ELSE IF context \in { ARRAY_NEEDS_VALUE, ARRAY_NEEDS_COMMA } THEN << "]" >>
    ELSE << "}" >>

\* what that branch appends to result
ClosingText(context) ==
    IF context = STRING_CTX THEN << "\"" >>
    ELSE IF context \in { NUMBER_NEEDS_DIGIT, NUMBER_NEEDS_EXPONENT } THEN << "0" >>
    ELSE IF context = TRUE_CTX THEN finish_word(TrueWord)
    ELSE IF context = FALSE_CTX THEN finish_word(FalseWord)
    ELSE IF context = NULL_CTX THEN finish_word(NullWord)
    ELSE IF context \in { ARRAY_NEEDS_VALUE, ARRAY_NEEDS_COMMA } THEN << "]" >>
    ELSE << "}" >>

RECURSIVE Join(_)
\* "".join(fragments)
Join(fragments) ==
    IF fragments = << >> THEN << >>
    ELSE Head(fragments) \o Join(Tail(fragments))

\* Truncate that cuts the stack at the checkpoint and keeps the whole text
Truncate_KeepsText ==
    /\ pc = "scan"
    /\ next_index = Len(json)
    /\ context_stack' =
           IF respawn_stack_length # None
           THEN SliceTo(context_stack, respawn_stack_length[1])
           ELSE context_stack
    /\ result' = << json >>
    /\ closing_index' = Len(context_stack')
    /\ pc' = "close"
    /\ UNCHANGED << position, next_index, respawn_vars, output, call_vars >>

\* the loop is exhausted: the stack and the text are cut at the checkpoint
Truncate ==
    /\ pc = "scan"
    /\ next_index = Len(json)
    /\ context_stack' =
           IF respawn_stack_length # None
           THEN SliceTo(context_stack, respawn_stack_length[1])
           ELSE context_stack
    /\ result' =
           << IF respawn_position # None
              THEN SliceTo(json, respawn_position[1])
              ELSE json >>
    /\ closing_index' = Len(context_stack')
    /\ pc' = "close"
    /\ UNCHANGED << position, next_index, respawn_vars, output, call_vars >>

\* one iteration of `for context in reversed(context_stack)`
Close ==
    /\ pc = "close"
    /\ closing_index >= 1
    /\ LET context == context_stack[closing_index]
       IN  result' = IF HasClosingText(context)
                     THEN Append(result, ClosingText(context))
                     ELSE result
    /\ closing_index' = closing_index - 1
    /\ UNCHANGED << context_stack, position, next_index, respawn_vars,
                    output, pc, call_vars >>

\* return "".join(result)
Return ==
    /\ pc = "close"
    /\ closing_index = 0
    /\ output' = Join(result)
    /\ pc' = "done"
    /\ UNCHANGED << context_stack, position, next_index, respawn_vars,
                    result, closing_index, call_vars >>

\* the caller applies untruncate_json to the text the last call returned
CallAgain ==
    /\ pc = "done"
    /\ calls < MaxCalls
    /\ json' = output
    /\ calls' = calls + 1
    /\ context_stack' = << TOP_LEVEL >>
    /\ position' = 0
    /\ next_index' = 0
    /\ respawn_position' = None
    /\ respawn_stack_length' = None
    /\ respawn_reason' = None
    /\ result' = << >>
    /\ closing_index' = 0
    /\ output' = << >>
    /\ pc' = "scan"

\* ------------------------------------------------------------------------
\* Inputs
\* ------------------------------------------------------------------------
Alphabet ==
    { "[", "]", "{", "}", ",", ":", "\"", "\\", "u", "1", "-", "t", " " }

\* every text over Alphabet of length n at most
Texts(n) == UNION { [1 .. m -> Alphabet] : m \in 0 .. n }

ShortTexts == Texts(MaxLen)

\* values without a nested value
Atoms ==
    { << "-", "1", ".", "2", "e", "+", "1" >>,
      << "\"", "a", "\\", "u", "1", "2", "a", "b", "\\", "u", "1", "2", "a", "b", "\"" >>,
      << "t", "r", "u", "e" >>,
      << "n", "u", "l", "l" >>,
      << "[", "]" >>,
      << "{", "}" >> }

\* values that precede the last item of a generated collection
Siblings ==
    { << "1" >>, << "\"", "a", "\"" >>, << "t", "r", "u", "e" >>,
      << "[", "]" >> }

ArrayHeads ==
    { << "[" >> } \cup { << "[" >> \o s \o << ",", " " >> : s \in Siblings }

ObjectHeads ==
    { << "{", "\"", "b", "\"", ":", " " >> } \cup
    { << "{", "\"", "a", "\"", ":" >> \o s \o << ",", "\"", "b", "\"", ":", " " >> :
          s \in Siblings }

RECURSIVE Docs(_)
\* valid JSON documents nested at most d deep
Docs(d) ==
    IF d = 0 THEN Atoms
    ELSE Atoms
         \cup { h \o v \o << "]" >> : h \in ArrayHeads, v \in Docs(d - 1) }
         \cup { h \o v \o << "}" >> : h \in ObjectHeads, v \in Docs(d - 1) }

Prefixes(texts) ==
    UNION { { SubSeq(t, 1, k) : k \in 0 .. Len(t) } : t \in texts }

RECURSIVE DocPrefixes(_)
\* every prefix of every document of Docs(d)
DocPrefixes(d) ==
    IF d = 0 THEN Prefixes(Atoms)
    ELSE Prefixes(Atoms) \cup Prefixes(ArrayHeads \cup ObjectHeads)
         \cup { h \o p : h \in ArrayHeads \cup ObjectHeads, p \in DocPrefixes(d - 1) }
         \cup { h \o v \o << "]" >> : h \in ArrayHeads, v \in Docs(d - 1) }
         \cup { h \o v \o << "}" >> : h \in ObjectHeads, v \in Docs(d - 1) }

\* the inputs the specification's examples use
SpecExamples ==
    { << "[", "1", ",", "2", "," >>,
      << "\"", "a", "b", "\\", "u", "1", "2" >>,
      << "{", "\"", "a", "\"", ":", "t", "r", "u" >>,
      << "{", "\"", "x", "\"", ":", "-" >>,
      << "[", "1", "." >>,
      << "{", "\"", "a", "\"", ":", "[", "1", ",", "{", "\"", "b", "\"", ":", "2" >>,
      << "{", "\"", "a", "\"", ":", "1", "}" >> }

\* strings that begin with a unicode escape whose characters may be a u
UnicodeTexts ==
    { << "\"", "\\", "u" >> \o t : t \in [1 .. 5 -> { "1", "u" }] }

\* texts in which a comma is followed by a closing bracket: one that is not
\* JSON, one that is a JSON document with the two inside a string, and one
\* that goes on after the bracket
CommaCloserTexts ==
    { << "[", "[", "]", ",", "]" >>,
      << "[", "1", ",", "\"", "a", ",", "]", "\"", "]" >>,
      << "[", "[", "]", ",", "]", "\"", "a" >> }

Inputs ==
    ShortTexts \cup DocPrefixes(MaxDepth) \cup SpecExamples
        \cup UnicodeTexts \cup CommaCloserTexts

\* ------------------------------------------------------------------------
\* Specification
\* ------------------------------------------------------------------------
\* the state at the entry of untruncate_json(text)
Entry(text) ==
    /\ json = text
    /\ context_stack = << TOP_LEVEL >>
    /\ position = 0
    /\ next_index = 0
    /\ respawn_position = None
    /\ respawn_stack_length = None
    /\ respawn_reason = None
    /\ result = << >>
    /\ closing_index = 0
    /\ output = << >>
    /\ pc = "scan"
    /\ calls = 1

Init == \E text \in Inputs : Entry(text)

Next ==
    \/ StepTopLevel
    \/ StepString
    \/ StepStringEscaped
    \/ StepStringUnicode
    \/ StepNumber
    \/ StepNumberNeedsDigit
    \/ StepNumberNeedsExponent
    \/ StepLiteral
    \/ StepArrayNeedsValue
    \/ StepArrayNeedsComma
    \/ StepObjectNeedsKey
    \/ StepObjectNeedsColon
    \/ StepObjectNeedsValue
    \/ StepObjectNeedsComma
    \/ Truncate
    \/ Close
    \/ Return
    \/ CallAgain

Spec == Init /\ [][Next]_vars

\* the inputs of the runs that are followed to their end
FairInputs == Texts(MaxLen - 1) \cup DocPrefixes(MaxDepth - 1) \cup SpecExamples

FairInit == \E text \in FairInputs : Entry(text)

\* the interpreter runs the call to its end: a step that can be taken is taken
FairSpec == FairInit /\ [][Next]_vars /\ WF_vars(Next)

\* ------------------------------------------------------------------------
\* The JSON grammar (RFC 8259), as a recogniser that is independent of the
\* scanner above.  It is the yardstick of the properties: what a valid
\* document is, what a prefix of one is, and which constructs are open at
\* the end of a prefix.
\* ------------------------------------------------------------------------
JsonWhitespace == { " ", "\t", "\n", "\r" }

HexDigits == Digits \cup { "a", "b", "c", "d", "e", "f", "A", "B", "C", "D", "E", "F" }

EscapeChars == { "\"", "\\", "/", "b", "f", "n", "r", "t" }

\* mode: where in the grammar the text stands; stk: the open collections,
\* outermost first; inkey: the string being read is an object key; word, k:
\* the literal being read and how much of it is there (for an escape, the
\* number of hex digits read); mark: the 0-based index where the object
\* member being read began (its comma, or the key quote of a first member);
\* esc: the 0-based index of the backslash of the escape being read
RefState(mode, stk, mark) ==
    [ mode |-> mode, stk |-> stk, inkey |-> FALSE, word |-> << >>, k |-> 0,
      mark |-> mark, esc |-> 0 ]

RefDead == RefState("dead", << >>, 0)

RefAfterValue(stk) ==
    RefState(IF stk = << >> THEN "end"
             ELSE IF stk[Len(stk)] = "[" THEN "arr_comma" ELSE "obj_comma",
             stk, 0)

RefPop(stk) == SubSeq(stk, 1, Len(stk) - 1)

\* a character where a value may start: modes start, arr_first, arr_value,
\* obj_value
RefValue(st, c) ==
    IF c \in JsonWhitespace THEN st
    ELSE IF c = "\"" THEN RefState("str", st.stk, 0)
    ELSE IF c = "-" THEN RefState("num_minus", st.stk, 0)
    ELSE IF c = "0" THEN RefState("num_zero", st.stk, 0)
    ELSE IF c \in Digits THEN RefState("num_int", st.stk, 0)
    ELSE IF c = "t" THEN [RefState("lit", st.stk, 0) EXCEPT !.word = TrueWord, !.k = 1]
    ELSE IF c = "f" THEN [RefState("lit", st.stk, 0) EXCEPT !.word = FalseWord, !.k = 1]
    ELSE IF c = "n" THEN [RefState("lit", st.stk, 0) EXCEPT !.word = NullWord, !.k = 1]
    ELSE IF c = "[" THEN RefState("arr_first", Append(st.stk, "["), 0)
    ELSE IF c = "{" THEN RefState("obj_first", Append(st.stk, "{"), 0)
    ELSE IF c = "]" /\ st.mode = "arr_first" THEN RefAfterValue(RefPop(st.stk))
    ELSE RefDead

\* a character between tokens: modes end, arr_comma, obj_comma, obj_first,
\* obj_key, obj_colon; i is its 0-based index
RefBetween(st, c, i) ==
    IF c \in JsonWhitespace THEN st
    ELSE IF st.mode = "arr_comma" /\ c = "," THEN RefState("arr_value", st.stk, 0)
    ELSE IF st.mode = "arr_comma" /\ c = "]" THEN RefAfterValue(RefPop(st.stk))
    ELSE IF st.mode = "obj_comma" /\ c = "," THEN RefState("obj_key", st.stk, i)
    ELSE IF st.mode = "obj_comma" /\ c = "}" THEN RefAfterValue(RefPop(st.stk))
    ELSE IF st.mode = "obj_first" /\ c = "}" THEN RefAfterValue(RefPop(st.stk))
    ELSE IF st.mode = "obj_first" /\ c = "\""
         THEN [RefState("str", st.stk, i) EXCEPT !.inkey = TRUE]
    ELSE IF st.mode = "obj_key" /\ c = "\""
         THEN [RefState("str", st.stk, st.mark) EXCEPT !.inkey = TRUE]
    ELSE IF st.mode = "obj_colon" /\ c = ":" THEN RefState("obj_value", st.stk, st.mark)
    ELSE RefDead

\* a character inside a string: modes str, esc, hex
RefString(st, c, i) ==
    IF st.mode = "str"
    THEN IF c = "\""
         THEN (IF st.inkey THEN RefState("obj_colon", st.stk, st.mark)
               ELSE RefAfterValue(st.stk))
         ELSE IF c = "\\" THEN [st EXCEPT !.mode = "esc", !.esc = i]
         ELSE IF c \in { "\n", "\r", "\t" } THEN RefDead
         ELSE st
    ELSE IF st.mode = "esc"
    THEN IF c \in EscapeChars THEN [st EXCEPT !.mode = "str", !.esc = 0]
         ELSE IF c = "u" THEN [st EXCEPT !.mode = "hex", !.k = 0]
         ELSE RefDead
    ELSE IF c \notin HexDigits THEN RefDead
         ELSE IF st.k = 3 THEN [st EXCEPT !.mode = "str", !.k = 0, !.esc = 0]
         ELSE [st EXCEPT !.k = st.k + 1]

NumberDone == { "num_zero", "num_int", "num_frac", "num_exp" }

\* a character inside a number; a character that cannot continue a complete
\* number ends it and is read as the character between tokens it is
RefNumber(st, c, i) ==
    LET to(mode) == RefState(mode, st.stk, 0)
    IN  IF st.mode = "num_minus"
        THEN (IF c = "0" THEN to("num_zero")
              ELSE IF c \in Digits THEN to("num_int") ELSE RefDead)
        ELSE IF st.mode \in { "num_dot", "num_sign" }
        THEN (IF c \in Digits
              THEN to(IF st.mode = "num_dot" THEN "num_frac" ELSE "num_exp")
              ELSE RefDead)
        ELSE IF st.mode = "num_e"
        THEN (IF c \in { "+", "-" } THEN to("num_sign")
              ELSE IF c \in Digits THEN to("num_exp") ELSE RefDead)
        ELSE IF c \in Digits /\ st.mode # "num_zero" THEN st
        ELSE IF c = "." /\ st.mode \in { "num_zero", "num_int" } THEN to("num_dot")
        ELSE IF c \in { "e", "E" } /\ st.mode # "num_exp" THEN to("num_e")
        ELSE RefBetween(RefAfterValue(st.stk), c, i)

\* a character inside a literal
RefLiteral(st, c) ==
    IF c # st.word[st.k + 1] THEN RefDead
    ELSE IF st.k + 1 = Len(st.word) THEN RefAfterValue(st.stk)
    ELSE [st EXCEPT !.k = st.k + 1]

RefStep(st, c, i) ==
    IF st.mode = "dead" THEN RefDead
    ELSE IF st.mode \in { "start", "arr_first", "arr_value", "obj_value" }
    THEN RefValue(st, c)
    ELSE IF st.mode \in { "str", "esc", "hex" } THEN RefString(st, c, i)
    ELSE IF st.mode = "lit" THEN RefLiteral(st, c)
    ELSE IF st.mode \in { "end", "arr_comma", "obj_comma", "obj_first",
                          "obj_key", "obj_colon" }
    THEN RefBetween(st, c, i)
    ELSE RefNumber(st, c, i)

RECURSIVE RefScan(_, _)
\* the state of the grammar after the first n characters of s
RefScan(s, n) ==
    IF n = 0 THEN RefState("start", << >>, 0)
    ELSE RefStep(RefScan(s, n - 1), s[n], n - 1)

Ref(s) == RefScan(s, Len(s))

\* s is a complete JSON document
IsJSON(s) ==
    /\ Ref(s).stk = << >>
    /\ Ref(s).mode \in { "end" } \cup NumberDone

\* s is a non-blank prefix of a JSON document
IsJSONPrefix(s) == Ref(s).mode \notin { "dead", "start" }

RECURSIVE RefClosers(_)
\* the closers of the open collections, innermost first
RefClosers(stk) ==
    IF stk = << >> THEN << >>
    ELSE << IF stk[Len(stk)] = "[" THEN "]" ELSE "}" >> \o RefClosers(RefPop(stk))

\* ------------------------------------------------------------------------
\* Properties
\* ------------------------------------------------------------------------
\* C1: well-formedness, for the inputs the claim singles out: whenever the
\* input is a non-blank prefix of a JSON document, the returned text is a
\* JSON document.
WellFormed == (pc = "done" /\ IsJSONPrefix(json)) => IsJSON(output)

\* C2: no-op on valid input: a complete JSON document is returned unchanged.
NoOpOnValid == (pc = "done" /\ IsJSON(json)) => output = json

\* C3: idempotence: a call on the text an earlier call returned returns that
\* text.
Idempotent == (pc = "done" /\ calls >= 2) => output = json

\* C4: totality.  Every call runs to its return: the scan loop and the
\* closing loop end, the stack is never empty when its top is read, and the
\* empty text is returned for the empty text.
Totality ==
    /\ [](context_stack # << >>)
    /\ []((pc = "done" /\ json = << >>) => output = << >>)
    /\ (pc = "scan") ~> (pc = "done")

\* C4 happens: a call whose last character was pushed back has returned
TotalityWitness ==
    /\ pc = "done"
    /\ Len(json) >= 2
    /\ position = Len(json) - 2

\* C5: trailing comma rollback in arrays: when the input is a prefix of a
\* JSON document that ends after the comma between two array items (and
\* whitespace at most), the returned text is the input before that comma
\* followed by the closers of the open collections.
TrailingCommaDropped ==
    (pc = "done" /\ Ref(json).mode = "arr_value") =>
        output = SliceTo(json, RFind(json, ",", 0, Len(json)))
                     \o RefClosers(Ref(json).stk)

\* the input ends after an object key has begun and before its value starts
InDanglingKey(st) ==
    \/ st.mode \in { "str", "esc", "hex" } /\ st.inkey
    \/ st.mode \in { "obj_colon", "obj_value" }

\* C6: dangling key rollback in objects: when the input is a prefix of a JSON
\* document that ends between the start of an object key and the start of
\* its value, the returned text is the input before the comma that precedes
\* the key (before the key's quote for a first member) followed by the
\* closers of the open collections.
DanglingKeyDropped ==
    (pc = "done" /\ InDanglingKey(Ref(json))) =>
        output = SliceTo(json, Ref(json).mark) \o RefClosers(Ref(json).stk)

\* C7: escape-safety: when the input ends inside an incomplete escape of a
\* string, the returned text is the input cut at the backslash of that
\* escape or earlier, followed by the quote that closes the string when the
\* cut is inside one and by the closers of the collections open at the cut.
EscapeSafe ==
    (pc = "done" /\ Ref(json).mode \in { "esc", "hex" }) =>
        \E cut \in 0 .. Ref(json).esc :
            LET st == RefScan(json, cut)
            IN  output = SliceTo(json, cut)
                             \o (IF st.mode = "str" THEN << "\"" >> ELSE << >>)
                             \o RefClosers(st.stk)

\* C8: literal completion: when the input ends inside a literal of which k
\* characters are there, the returned text is the input followed by the
\* characters of the word after its first k (and then by the closers).
LiteralCompleted ==
    (pc = "done" /\ Ref(json).mode = "lit") =>
        LET st == Ref(json)
            rest == SubSeq(st.word, st.k + 1, Len(st.word))
        IN  /\ Len(output) >= Len(json) + Len(rest)
            /\ SubSeq(output, 1, Len(json) + Len(rest)) = json \o rest

MinusInObject == << "{", "\"", "x", "\"", ":", "-" >>
DotInArray == << "[", "1", "." >>

\* C9 as stated: {"x":- becomes {"x":0} and [1. becomes [1.0]
NumericCompletionAsStated ==
    pc = "done" =>
        /\ json = MinusInObject => output = << "{", "\"", "x", "\"", ":", "0", "}" >>
        /\ json = DotInArray => output = << "[", "1", ".", "0", "]" >>

\* C9, amended: {"x":- becomes {"x":-0}, the input with 0 and } appended, and
\* [1. becomes [1.0]
NumericCompletion ==
    pc = "done" =>
        /\ json = MinusInObject =>
               output = << "{", "\"", "x", "\"", ":", "-", "0", "}" >>
        /\ json = DotInArray => output = << "[", "1", ".", "0", "]" >>

\* C9 happens: the call on {"x":- has returned
NumericCompletionWitness ==
    /\ pc = "done"
    /\ json = MinusInObject
    /\ output = MinusInObject \o << "0", "}" >>

\* C10: nested closing order: when the input is a prefix of a JSON document
\* that ends after a complete value inside arrays and objects, the returned
\* text is the input followed by one closer per open collection, innermost
\* first.
ClosersInnermostFirst ==
    (/\ pc = "done"
     /\ Ref(json).stk # << >>
     /\ Ref(json).mode \in { "arr_comma", "obj_comma" } \cup NumberDone) =>
        output = json \o RefClosers(Ref(json).stk)

\* the iteration that starts now ends a number or a literal: it pops the
\* context and pushes the character back
EndsNumberOrLiteral ==
    \/ current_context = NUMBER /\ Char \notin Digits \cup { ".", "e", "E" }
    \/ current_context \in { TRUE_CTX, FALSE_CTX, NULL_CTX } /\ Char \notin LowerLetters

\* C11: re-dispatch on pop: the character that ends a number or a literal
\* pops the context and is the character the next iteration reads, so that
\* it is processed against the context below.
Redispatched ==
    [][(InLoop /\ EndsNumberOrLiteral) =>
           /\ context_stack' = pop(context_stack)
           /\ next_index' = next_index]_vars

\* C12: stack invariant: during the scan and after the truncation at the
\* checkpoint, the context stack is not empty, its bottom is TopLevel and
\* TopLevel is at no other index.
StackInvariant ==
    /\ context_stack # << >>
    /\ context_stack[1] = TOP_LEVEL
    /\ \A i \in 2 .. Len(context_stack) : context_stack[i] # TOP_LEVEL

\* C12 happens: the stack has been truncated from inside an escape back to
\* the string that holds it
StackInvariantWitness ==
    /\ pc = "close"
    /\ respawn_reason = Some(STRING_ESCAPE)
    /\ Len(context_stack) >= 2
    /\ context_stack[Len(context_stack)] = STRING_CTX

\* a checkpoint is pending
Pending == respawn_position # None

\* the iteration that starts now calls set_respawn(reason)
CallsSetRespawn(reason) ==
    IF reason = STRING_ESCAPE
    THEN current_context = STRING_CTX /\ Char = "\\"
    ELSE \/ current_context \in { ARRAY_NEEDS_COMMA, OBJECT_NEEDS_COMMA } /\ Char = ","
         \/ current_context = OBJECT_NEEDS_KEY /\ Char = "\""

\* the iteration that starts now calls clear_respawn(reason)
CallsClearRespawn(reason) ==
    IF reason = STRING_ESCAPE
    THEN \/ current_context = STRING_ESCAPED /\ Char # "u"
         \/ /\ current_context = STRING_UNICODE
            /\ next_index - RFind(json, "u", 0, next_index) = 4
    ELSE \/ current_context = ARRAY_NEEDS_VALUE /\ Char # "]" /\ ~ is_whitespace(Char)
         \/ current_context = OBJECT_NEEDS_VALUE /\ ~ is_whitespace(Char)

\* C13: checkpoint slot discipline: the three fields are all set or all
\* unset; within a call, set_respawn with a checkpoint pending and
\* clear_respawn with another reason than the pending one leave them
\* unchanged, and they change only by a set on the empty slot (to the
\* current position, stack length and reason) or by a clear with the pending
\* reason (to unset).
SlotDiscipline ==
    /\ [](/\ (respawn_position = None) <=> (respawn_stack_length = None)
          /\ (respawn_position = None) <=> (respawn_reason = None))
    /\ [][calls' = calls =>
            /\ (InLoop /\ Pending /\ \E r \in RespawnReason : CallsSetRespawn(r))
                   => respawn_vars' = respawn_vars
            /\ \A r \in RespawnReason :
                   (InLoop /\ CallsClearRespawn(r) /\ respawn_reason # Some(r))
                       => respawn_vars' = respawn_vars
            /\ respawn_vars' # respawn_vars =>
                   /\ InLoop
                   /\ \E r \in RespawnReason :
                          \/ /\ ~ Pending
                             /\ CallsSetRespawn(r)
                             /\ respawn_vars' = << Some(next_index),
                                                   Some(Len(context_stack)),
                                                   Some(r) >>
                          \/ /\ respawn_reason = Some(r)
                             /\ CallsClearRespawn(r)
                             /\ respawn_vars' = << None, None, None >>]_vars

\* C13 happens: the backslash of a key was read while the checkpoint of the
\* key was pending, and that checkpoint is still the pending one
SlotDisciplineWitness ==
    /\ pc = "scan"
    /\ current_context = STRING_ESCAPED
    /\ respawn_reason = Some(COLLECTION_ITEM)
    /\ respawn_position[1] < next_index - 1

\* C14: no escape context at synthesis: once the stack has been truncated at
\* the checkpoint, the stack the closing loop walks holds neither
\* StringEscaped nor StringUnicode.
NoEscapeAtSynthesis ==
    pc \in { "close", "done" } =>
        \A i \in 1 .. Len(context_stack) :
            context_stack[i] \notin { STRING_ESCAPED, STRING_UNICODE }

\* the characters for which start_any pushes a context
ValueStart == Digits \cup { "\"", "-", "t", "f", "n", "[", "{" }

\* a top-level value has been scanned and the stack is back to [TopLevel]:
\* the first character that starts a value is always read at the top level
AfterTopLevelValue ==
    /\ InLoop
    /\ context_stack = << TOP_LEVEL >>
    /\ \E i \in 1 .. next_index : json[i] \in ValueStart

\* C15 as stated: once a top-level value has been scanned and the stack is
\* back to [TopLevel], no character pushes a context again, and nothing is
\* appended to the text.
SingleTopLevelValue ==
    /\ [][AfterTopLevelValue => context_stack' = << TOP_LEVEL >>]_vars
    /\ []((pc = "done" /\ context_stack = << TOP_LEVEL >>)
              => output = SliceTo(json, Len(output)))

\* C15, amended: once a top-level value has been scanned and the stack is
\* back to [TopLevel], a character that cannot start a value leaves the
\* stack and the checkpoint unchanged, a character that can start a value
\* pushes a context again, and a scan that ends with [TopLevel] appends
\* nothing to the text.
TopLevelIgnoresNonValues ==
    /\ [][(AfterTopLevelValue /\ Char \notin ValueStart) =>
              /\ context_stack' = << TOP_LEVEL >>
              /\ respawn_vars' = respawn_vars]_vars
    /\ [][(AfterTopLevelValue /\ Char \in ValueStart) =>
              /\ Len(context_stack') = 2
              /\ context_stack'[1] = TOP_LEVEL]_vars
    /\ []((pc = "done" /\ context_stack = << TOP_LEVEL >>)
              => output = SliceTo(json, Len(output)))

\* C15 happens: the comma after the complete top-level value [] was read and
\* the stack is still [TopLevel]
TopLevelIgnoresWitness ==
    /\ pc = "scan"
    /\ json = << "[", "]", "," >>
    /\ next_index = 3
    /\ context_stack = << TOP_LEVEL >>

Suffixes(word) == { SubSeq(word, k, Len(word)) : k \in 1 .. Len(word) + 1 }

\* the fragments C16 allows for a context
Fragments(context) ==
    IF context = STRING_CTX THEN { << "\"" >> }
    ELSE IF context \in { NUMBER_NEEDS_DIGIT, NUMBER_NEEDS_EXPONENT } THEN { << "0" >> }
    ELSE IF context \in { ARRAY_NEEDS_VALUE, ARRAY_NEEDS_COMMA } THEN { << "]" >> }
    ELSE IF context \in { OBJECT_NEEDS_KEY, OBJECT_NEEDS_COLON,
                          OBJECT_NEEDS_VALUE, OBJECT_NEEDS_COMMA } THEN { << "}" >> }
    ELSE IF context = TRUE_CTX THEN Suffixes(<< "t", "r", "u", "e" >>)
    ELSE IF context = FALSE_CTX THEN Suffixes(<< "f", "a", "l", "s", "e" >>)
    ELSE IF context = NULL_CTX THEN Suffixes(<< "n", "u", "l", "l" >>)
    ELSE { << >> }

RECURSIVE ClosingTexts(_)
\* the texts made of one allowed fragment per context, top of the stack first
ClosingTexts(stack) ==
    IF stack = << >> THEN { << >> }
    ELSE { f \o t : f \in Fragments(stack[Len(stack)]),
                    t \in ClosingTexts(SubSeq(stack, 1, Len(stack) - 1)) }

\* C16: synthesis shape: at the end of the scan the stack is cut at the
\* recorded length of a pending checkpoint (kept whole when none is
\* pending), and the returned text is the input cut at the recorded position
\* (the whole input when none is pending) followed by one fragment per
\* context of that stack, from its top to its bottom.
SynthesisShape ==
    /\ [][(pc = "scan" /\ pc' = "close") =>
              context_stack' =
                  IF Pending /\ respawn_stack_length[1] < Len(context_stack)
                  THEN SubSeq(context_stack, 1, respawn_stack_length[1])
                  ELSE context_stack]_vars
    /\ [](pc = "done" =>
              LET kept == IF Pending
                          THEN SubSeq(json, 1, respawn_position[1])
                          ELSE json
              IN  output \in { kept \o t : t \in ClosingTexts(context_stack) })

\* C16 happens: a call with a pending checkpoint has returned a text that is
\* shorter than its input where it was cut and has closing text after the cut
SynthesisShapeWitness ==
    /\ pc = "done"
    /\ Pending
    /\ respawn_position[1] < Len(json)
    /\ Len(output) > respawn_position[1]

\* the iteration that starts now reads what confirms that a value starts
\* after a comma or a colon
ReadsValueStart ==
    \/ current_context = ARRAY_NEEDS_VALUE /\ ~ (Char \in JsonWhitespace) /\ Char # "]"
    \/ current_context = OBJECT_NEEDS_VALUE /\ ~ (Char \in JsonWhitespace)

\* the iteration that starts now reads the fourth character after the u of
\* the escape whose checkpoint is pending (the u follows the backslash)
ReadsFourthAfterU ==
    /\ current_context = STRING_UNICODE
    /\ next_index = respawn_position[1] + 5

\* none of the three characters between that u and the character read is a u
NoUInBetween ==
    \A i \in (respawn_position[1] + 2) .. (respawn_position[1] + 4) :
        json[i + 1] # "u"

ReadsWhitespaceBeforeValue ==
    /\ current_context \in { ARRAY_NEEDS_VALUE, OBJECT_NEEDS_VALUE }
    /\ Char \in JsonWhitespace

Cleared == respawn_vars' = << None, None, None >>

\* C17 as stated: a pending CollectionItem checkpoint is gone after the step
\* that reads the start of the value; a pending StringEscape checkpoint is
\* gone after StringEscaped reads a character other than u or StringUnicode
\* reads the fourth character after the u; whitespace before a value changes
\* neither the checkpoint nor the stack.
ResolvedAtOnceAsStated ==
    [][(calls' = calls /\ InLoop) =>
          /\ (respawn_reason = Some(COLLECTION_ITEM) /\ ReadsValueStart) => Cleared
          /\ (/\ respawn_reason = Some(STRING_ESCAPE)
              /\ current_context = STRING_ESCAPED
              /\ Char # "u") => Cleared
          /\ (respawn_reason = Some(STRING_ESCAPE) /\ ReadsFourthAfterU) => Cleared
          /\ ReadsWhitespaceBeforeValue =>
                 /\ respawn_vars' = respawn_vars
                 /\ context_stack' = context_stack]_vars

\* C17, amended: as stated, but StringUnicode clears the checkpoint on the
\* fourth character after the u only when none of the three characters in
\* between is a u.
ResolvedAtOnce ==
    [][(calls' = calls /\ InLoop) =>
          /\ (respawn_reason = Some(COLLECTION_ITEM) /\ ReadsValueStart) => Cleared
          /\ (/\ respawn_reason = Some(STRING_ESCAPE)
              /\ current_context = STRING_ESCAPED
              /\ Char # "u") => Cleared
          /\ (/\ respawn_reason = Some(STRING_ESCAPE)
              /\ ReadsFourthAfterU
              /\ NoUInBetween) => Cleared
          /\ ReadsWhitespaceBeforeValue =>
                 /\ respawn_vars' = respawn_vars
                 /\ context_stack' = context_stack]_vars

\* C17 happens: the four characters after a backslash and a u have been read
\* in a string and no checkpoint is pending
ResolvedAtOnceWitness ==
    /\ pc = "scan"
    /\ next_index >= 6
    /\ json[next_index - 5] = "\\"
    /\ json[next_index - 4] = "u"
    /\ \A i \in (next_index - 3) .. next_index : json[i] \in HexDigits
    /\ STRING_UNICODE \notin { context_stack[i] : i \in 1 .. Len(context_stack) }
    /\ STRING_CTX \in { context_stack[i] : i \in 1 .. Len(context_stack) }
    /\ ~ Pending

CollectionContexts ==
    { ARRAY_NEEDS_VALUE, ARRAY_NEEDS_COMMA, OBJECT_NEEDS_KEY,
      OBJECT_NEEDS_COLON, OBJECT_NEEDS_VALUE, OBJECT_NEEDS_COMMA }

\* C18: in every state of the scan with a checkpoint pending, the recorded
\* stack length d is between 2 and the length of the stack, and the context
\* at depth d is the String (reason StringEscape) or an array or object
\* context (reason CollectionItem), so the truncation keeps d contexts.
CheckpointDepthConsistent ==
    (pc = "scan" /\ Pending) =>
        LET d == respawn_stack_length[1]
        IN  /\ 2 <= d
            /\ d <= Len(context_stack)
            /\ respawn_reason = Some(STRING_ESCAPE) => context_stack[d] = STRING_CTX
            /\ respawn_reason = Some(COLLECTION_ITEM) =>
                   context_stack[d] \in CollectionContexts

\* C19: in every state of the scan where a StringEscape checkpoint is
\* pending, the top of the stack is StringEscaped or StringUnicode, the
\* recorded stack length is the depth of the String below them, and the
\* recorded position is the index of the backslash that began the escape.
StringEscapeScope ==
    (pc = "scan" /\ respawn_reason = Some(STRING_ESCAPE)) =>
        LET d == respawn_stack_length[1]
            p == respawn_position[1]
            n == Len(context_stack)
        IN  /\ current_context \in { STRING_ESCAPED, STRING_UNICODE }
            /\ d = IF current_context = STRING_ESCAPED THEN n - 1 ELSE n - 2
            /\ context_stack[d] = STRING_CTX
            /\ context_stack[d + 1] = STRING_ESCAPED
            /\ p < next_index
            /\ json[p + 1] = "\\"
            /\ current_context = STRING_ESCAPED => p = next_index - 1
            /\ current_context = STRING_UNICODE => json[p + 2] = "u"

\* C19 happens: a StringEscape checkpoint is pending inside a backslash-u
\* escape of a string nested in an array or an object
StringEscapeScopeWitness ==
    /\ pc = "scan"
    /\ respawn_reason = Some(STRING_ESCAPE)
    /\ current_context = STRING_UNICODE
    /\ Len(context_stack) >= 5
    /\ respawn_position[1] < next_index - 2

\* the iteration that starts now reads, in StringUnicode, the fourth
\* hexadecimal digit after a backslash and a u
ReadsLastHexDigit ==
    /\ current_context = STRING_UNICODE
    /\ next_index >= 6
    /\ json[next_index - 4] = "\\"
    /\ json[next_index - 3] = "u"
    /\ \A i \in (next_index - 2) .. (next_index + 1) : json[i] \in HexDigits

\* C20: once the scanner has read a backslash-u escape with its four
\* following characters inside a string, the top of the stack is String
\* again, so that the next character is read as a character of the string.
UnicodeEscapeResolved ==
    [][(calls' = calls /\ InLoop /\ ReadsLastHexDigit) =>
          context_stack'[Len(context_stack')] = STRING_CTX]_vars

====
